---- MODULE Spec2Model ----
(***************************************************************************)
(* Ladder tracker (tracker.py): one run of main() per ingestion cycle.     *)
(* The persisted state is the players directory (one JSON file per         *)
(* sanitised character name), current_ladder.json and metadata.json.       *)
(*                                                                         *)
(* Character names and file names are sequences of one-character strings.  *)
(* Python's None is the empty sequence and a present optional value v is   *)
(* the one-element sequence <<v>>.  A snapshot is a record with the keys   *)
(* the code writes: t and x always, d and dead only when set.  The         *)
(* interval labels "1h", "4h", "12h", "1d", "3d" are the record fields h1, *)
(* h4, h12, d1, d3.  The class, account, level, twitch and challenge       *)
(* fields, which the code copies and never computes with, are left out.    *)
(***************************************************************************)
EXTENDS Integers, Sequences, FiniteSets, TLC

VARIABLES
    store,          \* players directory: file name -> [name, history]
    ladder_file,    \* current_ladder.json: None or <<ladder>>
    meta_file,      \* metadata.json: None or <<meta record>>
    now,            \* wall clock, int(time.time())
    cycles,         \* number of runs of main() started so far
    pc,             \* position of the running main(): "idle" when no run
    entries,        \* raw["entries"] of the running cycle
    timestamp,      \* main's timestamp
    idx,            \* position of the update loop in entries (1-based)
    updated_count,  \* main's updated_count
    ret,            \* return value of the last update_player_history call
    histories,      \* calculate_metrics: char_name -> loaded history
    xp_then,        \* calculate_metrics: label -> char_name -> resolved xp
    historic,       \* calculate_metrics: label -> sorted historic_ladder
    rates,          \* calculate_metrics result: char_name -> label -> rate
    rank_changes,   \* calculate_metrics result: char_name -> label -> delta
    written         \* files written by the current (or last) run, in order

vars == <<store, ladder_file, meta_file, now, cycles, pc, entries, timestamp,
          idx, updated_count, ret, histories, xp_then, historic, rates,
          rank_changes, written>>

----------------------------------------------------------------------------
(* Bounds of the model *)

(* runs of main() in one behaviour *)
MaxCycles == 3

(* snapshots in the longest history drawn for calculate_metrics *)
MaxLen == 2

None == <<>>
Some(v) == <<v>>

(* Character names of the model.  "a" and "_a" are distinct names. *)
NameA == <<"a">>
NameUA == <<"_", "a">>
NameB == <<"b">>
NameC == <<"c">>

----------------------------------------------------------------------------
(* Configuration *)

INTERVALS == [h1 |-> 3600, h4 |-> 14400, h12 |-> 43200, d1 |-> 86400,
              d3 |-> 259200]

Labels == DOMAIN INTERVALS

(* Seconds between two runs of the scheduled job: the shortest interval *)
Tick == INTERVALS.h1

(* The characters re's \w matches under re.ASCII, and the hyphen *)
AsciiWord == {"a", "b", "c", "k", "n", "o", "u", "w", "_"}

Unknown == <<"u", "n", "k", "n", "o", "w", "n">>

----------------------------------------------------------------------------
(* Helpers *)

Last(s) == s[Len(s)]

(* dict.get(key, default) on a record *)
Get(rec, key, default) == IF key \in DOMAIN rec THEN rec[key] ELSE default

(* re.sub(r'[^\w\-]', '_', name, flags=re.ASCII) *)
SubNonWord(name) ==
    [k \in 1..Len(name) |->
        IF name[k] \in AsciiWord \cup {"-"} THEN name[k] ELSE "_"]

(* re.sub(r'_+', '_', s): every run of underscores becomes one underscore *)
RECURSIVE CollapseUnderscores(_)
CollapseUnderscores(s) ==
    IF Len(s) < 2 THEN s
    ELSE IF s[1] = "_" /\ s[2] = "_" THEN CollapseUnderscores(Tail(s))
    ELSE <<s[1]>> \o CollapseUnderscores(Tail(s))

(* str.strip('_') *)
RECURSIVE StripLeft(_)
StripLeft(s) ==
    IF s # <<>> /\ s[1] = "_" THEN StripLeft(Tail(s)) ELSE s

RECURSIVE StripRight(_)
StripRight(s) ==
    IF s # <<>> /\ Last(s) = "_" THEN StripRight(SubSeq(s, 1, Len(s) - 1))
    ELSE s

safe_filename(name) ==
    LET safe == StripRight(StripLeft(CollapseUnderscores(SubNonWord(name))))
    IN IF safe # <<>> THEN safe ELSE Unknown

(* load_player_history: [] when the file does not exist *)
load_player_history(char_name) ==
    LET filepath == safe_filename(char_name)
    IN IF filepath \notin DOMAIN store THEN <<>>
       ELSE store[filepath].history

----------------------------------------------------------------------------
(* Time Resolver *)

(* for snap in reversed(history): if snap["t"] <= target_time: break       *)
(* The index of the snapshot the loop stops at, 0 when it runs to the end. *)
RECURSIVE ReverseScan(_, _, _)
ReverseScan(history, target_time, k) ==
    IF k = 0 THEN 0
    ELSE IF history[k].t <= target_time THEN k
    ELSE ReverseScan(history, target_time, k - 1)

(* get_xp_at_time with a strict comparison in the scan: a snapshot taken   *)
(* exactly at target_time is passed over                                   *)
RECURSIVE ReverseScanStrict(_, _, _)
ReverseScanStrict(history, target_time, k) ==
    IF k = 0 THEN 0
    ELSE IF history[k].t < target_time THEN k
    ELSE ReverseScanStrict(history, target_time, k - 1)

get_xp_at_time_StrictScan(history, target_time) ==
    IF history = <<>> THEN None
    ELSE IF target_time >= Last(history).t THEN Some(Last(history).x)
    ELSE IF target_time < history[1].t THEN None
    ELSE LET best == ReverseScanStrict(history, target_time, Len(history))
         IN IF best # 0 THEN Some(history[best].x) ELSE None

get_xp_at_time(history, target_time) ==
    IF history = <<>> THEN None
    ELSE IF target_time >= Last(history).t THEN Some(Last(history).x)
    ELSE IF target_time < history[1].t THEN None
    ELSE LET best == ReverseScan(history, target_time, Len(history))
         IN IF best # 0 THEN Some(history[best].x) ELSE None

----------------------------------------------------------------------------
(* Rate Calculator: the rate branch of calculate_metrics *)

Max(a, b) == IF a >= b THEN a ELSE b

(* int((real_dx / real_dt) * 3600): int() truncates towards zero.  On the  *)
(* values of this model the double-precision quotient and product give     *)
(* the same integer as the exact quotient.                                 *)
IntRate(real_dx, real_dt) ==
    IF real_dx >= 0 THEN (real_dx * 3600) \div real_dt
    ELSE 0 - (((0 - real_dx) * 3600) \div real_dt)

(* RateOf with the nominal window as the elapsed time: "simply             *)
(* (CurrentXP - XP_Then) / (Now - TargetTime) * 3600"                      *)
RateOf_NominalWindow(history, target_time) ==
    LET xp == get_xp_at_time(history, target_time)
    IN IF history # <<>> /\ xp # None
       THEN LET current_snap == Last(history)
                dt == current_snap.t - target_time
            IN IF dt > 0
               THEN Max(0, IntRate(current_snap.x - xp[1], dt))
               ELSE 0
       ELSE 0

(* RateOf without the max(0, rate) floor *)
RateOf_NoFloor(history, target_time) ==
    LET xp == get_xp_at_time(history, target_time)
    IN IF history # <<>> /\ xp # None
       THEN LET current_snap == Last(history)
                past == ReverseScan(history, target_time, Len(history))
            IN IF past # 0 /\ current_snap.t > history[past].t
               THEN IntRate(current_snap.x - history[past].x,
                            current_snap.t - history[past].t)
               ELSE 0
       ELSE 0

(* RateOf that falls back to the first snapshot when the character was not *)
(* tracked at target_time                                                  *)
RateOf_FallbackToFirst(history, target_time) ==
    IF history = <<>> THEN 0
    ELSE LET current_snap == Last(history)
             scan == ReverseScan(history, target_time, Len(history))
             past == IF scan # 0 THEN scan ELSE 1
         IN IF current_snap.t > history[past].t
            THEN Max(0, IntRate(current_snap.x - history[past].x,
                                current_snap.t - history[past].t))
            ELSE 0

RateOf(history, target_time) ==
    LET xp == get_xp_at_time(history, target_time)
    IN IF history # <<>> /\ xp # None
       THEN LET current_snap == Last(history)
                past == ReverseScan(history, target_time, Len(history))
            IN IF past # 0 /\ current_snap.t > history[past].t
               THEN LET real_dt == current_snap.t - history[past].t
                        real_dx == current_snap.x - history[past].x
                    IN Max(0, IntRate(real_dx, real_dt))
               ELSE 0
       ELSE 0

----------------------------------------------------------------------------
(* Rank Reconstructor: the historic ladder of calculate_metrics *)

(* The keys of the histories dict in insertion order: the truthy character *)
(* names of the entries, each at its first occurrence.                     *)
RECURSIVE HistoryNames(_)
HistoryNames(es) ==
    IF es = <<>> THEN <<>>
    ELSE LET front == HistoryNames(SubSeq(es, 1, Len(es) - 1))
             name == Last(es).name
         IN IF name # <<>> /\ \A k \in 1..Len(front) : front[k] # name
            THEN Append(front, name)
            ELSE front

(* BuildHistoricLadder that assumes 0 for a history that does not resolve  *)
(* instead of excluding it                                                 *)
RECURSIVE BuildHistoricLadder_ZeroForUnknown(_, _, _)
BuildHistoricLadder_ZeroForUnknown(names, hist, target_time) ==
    IF names = <<>> THEN <<>>
    ELSE LET front == BuildHistoricLadder_ZeroForUnknown(
                          SubSeq(names, 1, Len(names) - 1), hist, target_time)
             name == Last(names)
             xp == get_xp_at_time(hist[name], target_time)
         IN Append(front, [name |-> name,
                           xp |-> IF xp # None THEN xp[1] ELSE 0])

(* historic_ladder before the sort: one item per history that resolves *)
RECURSIVE BuildHistoricLadder(_, _, _)
BuildHistoricLadder(names, hist, target_time) ==
    IF names = <<>> THEN <<>>
    ELSE LET front == BuildHistoricLadder(SubSeq(names, 1, Len(names) - 1),
                                          hist, target_time)
             name == Last(names)
             xp == get_xp_at_time(hist[name], target_time)
         IN IF xp # None THEN Append(front, [name |-> name, xp |-> xp[1]])
            ELSE front

(* InsertDesc that places an item before the items of equal xp: a sort     *)
(* that is descending but reverses ties                                    *)
RECURSIVE InsertDesc_BeforeEqual(_, _)
InsertDesc_BeforeEqual(sorted, item) ==
    IF sorted = <<>> THEN <<item>>
    ELSE IF sorted[1].xp > item.xp
         THEN <<sorted[1]>> \o InsertDesc_BeforeEqual(Tail(sorted), item)
         ELSE <<item>> \o sorted

(* list.sort(key=xp, reverse=True): descending and stable, items of equal  *)
(* xp keep their order.                                                    *)
RECURSIVE InsertDesc(_, _)
InsertDesc(sorted, item) ==
    IF sorted = <<>> THEN <<item>>
    ELSE IF sorted[1].xp >= item.xp
         THEN <<sorted[1]>> \o InsertDesc(Tail(sorted), item)
         ELSE <<item>> \o sorted

RECURSIVE SortDesc(_)
SortDesc(ladder) ==
    IF ladder = <<>> THEN <<>>
    ELSE InsertDesc(SortDesc(SubSeq(ladder, 1, Len(ladder) - 1)), Last(ladder))

(* historic_ranks.get(name): idx + 1 of the item, None when absent; a name *)
(* occurring twice keeps the later index.                                  *)
HistoricRank(ladder, name) ==
    LET hits == {k \in 1..Len(ladder) : ladder[k].name = name}
    IN IF hits = {} THEN None
       ELSE Some(CHOOSE k \in hits : \A j \in hits : j <= k)

(* current_ranks[name]: the rank of the last entry with that name *)
CurrentRank(es, name) ==
    LET hits == {k \in 1..Len(es) : es[k].name = name}
    IN es[CHOOSE k \in hits : \A j \in hits : j <= k].rank

(* RankDelta that reports 0 for a character without historic rank *)
RankDelta_ZeroForNew(past_rank, curr_rank) ==
    IF past_rank # None /\ past_rank[1] # 0
    THEN Some(past_rank[1] - curr_rank)
    ELSE Some(0)

(* the delta branch: "if past_rank:" is false for None and for 0 *)
RankDelta(past_rank, curr_rank) ==
    IF past_rank # None /\ past_rank[1] # 0
    THEN Some(past_rank[1] - curr_rank)
    ELSE None

EntryNames(es) == {es[k].name : k \in 1..Len(es)}

SeqRange(s) == {s[k] : k \in 1..Len(s)}

----------------------------------------------------------------------------
(* History Ingestor: update_player_history *)

(* the snapshot dict: "d" only when depth is not None, "dead" only if dead *)
Snapshot(entry, ts) ==
    LET base == [t |-> ts, x |-> entry.experience]
        withd == IF entry.depth # None
                 THEN base @@ [d |-> entry.depth[1]]
                 ELSE base
    IN IF entry.dead THEN withd @@ [dead |-> TRUE] ELSE withd

(* player_data as read from the file, or the fresh dict of a new player *)
PlayerData(files, entry) ==
    LET filepath == safe_filename(entry.name)
    IN IF filepath \in DOMAIN files THEN files[filepath]
       ELSE [name |-> entry.name, history |-> <<>>]

(* NoChange with last.get("dead") lacking its default: None for a living   *)
(* character, which never equals the entry's False                         *)
NoChange_NoDeadDefault(history, entry) ==
    /\ history # <<>>
    /\ LET last == Last(history)
           last_xp == Get(last, "x", 0)
           last_depth == IF "d" \in DOMAIN last THEN Some(last.d) ELSE None
       IN /\ last_xp = entry.experience
          /\ last_depth = entry.depth
          /\ "dead" \in DOMAIN last
          /\ entry.dead

(* the "No change" test against the last snapshot of the history *)
NoChange(history, entry) ==
    /\ history # <<>>
    /\ LET last == Last(history)
           last_xp == Get(last, "x", 0)
           last_depth == IF "d" \in DOMAIN last THEN Some(last.d) ELSE None
           last_dead == Get(last, "dead", FALSE)
       IN /\ last_xp = entry.experience
          /\ last_depth = entry.depth
          /\ last_dead = entry.dead

(* the return value of update_player_history *)
UpdateReturns(files, entry) ==
    ~NoChange(PlayerData(files, entry).history, entry)

(* UpdateStore that starts from the fresh player dict even when the file   *)
(* exists, so the stored history is replaced by the new snapshot           *)
UpdateStore_FreshDict(files, entry, ts) ==
    LET filepath == safe_filename(entry.name)
        player_data == PlayerData(files, entry)
    IN IF NoChange(player_data.history, entry) THEN files
       ELSE (filepath :> [name |-> entry.name,
                          history |-> <<Snapshot(entry, ts)>>])
            @@ files

(* the players directory after update_player_history(entry, ts) *)
UpdateStore(files, entry, ts) ==
    LET filepath == safe_filename(entry.name)
        player_data == PlayerData(files, entry)
    IN IF NoChange(player_data.history, entry) THEN files
       ELSE (filepath :> [name |-> entry.name,
                          history |-> Append(player_data.history,
                                             Snapshot(entry, ts))])
            @@ files

----------------------------------------------------------------------------
(* Output assembly: build_current_ladder and save_metadata *)

ZeroRates == [label \in Labels |-> 0]

build_current_ladder(es, rs, rcs) ==
    [k \in 1..Len(es) |->
        LET entry == es[k]
            p_rates == IF entry.name \in DOMAIN rs THEN rs[entry.name]
                       ELSE <<>>
            p_ranks == IF entry.name \in DOMAIN rcs THEN rcs[entry.name]
                       ELSE <<>>
        IN [rank |-> entry.rank,
            name |-> entry.name,
            experience |-> entry.experience,
            xp_per_hour |-> IF ~entry.dead THEN Get(p_rates, "h1", 0) ELSE 0,
            xp_rates |-> IF ~entry.dead THEN p_rates ELSE ZeroRates,
            rank_changes |-> p_ranks,
            dead |-> entry.dead,
            depth |-> entry.depth]]

Metadata(ts, total_players, count) ==
    [last_updated |-> ts, total_players |-> total_players,
     players_updated |-> count]

----------------------------------------------------------------------------
(* Inputs: the ladders the API can return *)

Entry(name, rank, xp, depth, dead) ==
    [name |-> name, rank |-> rank, experience |-> xp, depth |-> depth,
     dead |-> dead]

(* one character: experience, depth and dead flag vary *)
SoloValues ==
    {<<1000, None, FALSE>>, <<1500, None, FALSE>>, <<1500, Some(5), FALSE>>,
     <<1500, Some(5), TRUE>>}

SoloLadders == {<<Entry(NameA, 1, v[1], v[2], v[3])>> : v \in SoloValues}

(* two characters in rank order, alive and without depth *)
Pair(n1, x1, n2, x2) ==
    <<Entry(n1, 1, x1, None, FALSE), Entry(n2, 2, x2, None, FALSE)>>

PairLadders ==
    {Pair(NameA, 1500, NameB, 1000), Pair(NameA, 1000, NameB, 1000),
     Pair(NameB, 1500, NameA, 1000),
     Pair(NameA, 1500, NameUA, 1000), Pair(NameA, 1000, NameUA, 1000)}

Ladders == SoloLadders \cup PairLadders

----------------------------------------------------------------------------
(* The state machine: runs of main() *)

Stopped == pc \in {"idle", "exit0", "exit1", "crashed", "done"}

Running == pc \in {"update", "metrics", "ladder", "meta"}

(* the paths of the files a run writes: directory and file name *)
PlayerPath(safe_name) == <<"players", safe_name>>
LadderPath == <<"data", <<"current_ladder.json">>>>
MetadataPath == <<"data", <<"metadata.json">>>>

(* the memory of a process that is not running *)
NoRun ==
    /\ entries' = <<>>
    /\ timestamp' = 0
    /\ idx' = 0
    /\ updated_count' = 0
    /\ ret' = FALSE
    /\ histories' = <<>>
    /\ xp_then' = <<>>
    /\ historic' = <<>>
    /\ rates' = <<>>
    /\ rank_changes' = <<>>

Init ==
    /\ store = <<>>
    /\ ladder_file = None
    /\ meta_file = None
    /\ now = 0
    /\ cycles = 0
    /\ pc = "idle"
    /\ entries = <<>>
    /\ timestamp = 0
    /\ idx = 0
    /\ updated_count = 0
    /\ ret = FALSE
    /\ histories = <<>>
    /\ xp_then = <<>>
    /\ historic = <<>>
    /\ rates = <<>>
    /\ rank_changes = <<>>
    /\ written = <<>>

(* a run starts: the scheduler fires one run at a time, Tick apart *)
LaunchRun ==
    /\ Stopped
    /\ cycles < MaxCycles
    /\ cycles' = cycles + 1
    /\ now' = now + Tick
    /\ written' = <<>>

(* fetch_ladder fails with an HTTP or URL error: sys.exit(1) *)
FetchFails ==
    /\ LaunchRun
    /\ pc' = "exit1"
    /\ NoRun
    /\ UNCHANGED <<store, ladder_file, meta_file>>

(* FetchEmpty that records the empty cycle in metadata.json before it      *)
(* exits                                                                   *)
FetchEmpty_SavesMetadata ==
    /\ Stopped
    /\ cycles < MaxCycles
    /\ cycles' = cycles + 1
    /\ now' = now + Tick
    /\ meta_file' = Some(Metadata(now, 0, 0))
    /\ written' = <<MetadataPath>>
    /\ pc' = "exit0"
    /\ NoRun
    /\ UNCHANGED <<store, ladder_file>>

(* the response has no entries: sys.exit(0) *)
FetchEmpty ==
    /\ LaunchRun
    /\ pc' = "exit0"
    /\ NoRun
    /\ UNCHANGED <<store, ladder_file, meta_file>>

(* main up to the start of the update loop *)
FetchEntries ==
    /\ LaunchRun
    /\ \E es \in Ladders : entries' = es
    /\ timestamp' = now
    /\ idx' = 1
    /\ updated_count' = 0
    /\ pc' = "update"
    /\ UNCHANGED <<store, ladder_file, meta_file, ret, histories, xp_then,
                   historic, rates, rank_changes>>

(* one iteration of "for entry in entries: update_player_history(...)" *)
UpdateHistory ==
    /\ pc = "update"
    /\ LET entry == entries[idx]
           changed == UpdateReturns(store, entry)
       IN /\ store' = UpdateStore(store, entry, timestamp)
          /\ ret' = changed
          /\ updated_count' = IF changed THEN updated_count + 1
                              ELSE updated_count
          /\ written' = IF changed
                        THEN Append(written,
                                    PlayerPath(safe_filename(entry.name)))
                        ELSE written
    /\ idx' = idx + 1
    /\ pc' = IF idx = Len(entries) THEN "metrics" ELSE "update"
    /\ UNCHANGED <<ladder_file, meta_file, now, cycles, entries, timestamp,
                   histories, xp_then, historic, rates, rank_changes>>

(* calculate_metrics(entries, timestamp) *)
CalculateMetrics ==
    /\ pc = "metrics"
    /\ LET names == HistoryNames(entries)
           hist == [name \in SeqRange(names) |-> load_player_history(name)]
           ladders == [label \in Labels |->
                          SortDesc(BuildHistoricLadder(names, hist,
                                       timestamp - INTERVALS[label]))]
       IN /\ histories' = hist
          /\ xp_then' = [label \in Labels |->
                            [name \in SeqRange(names) |->
                                get_xp_at_time(hist[name],
                                    timestamp - INTERVALS[label])]]
          /\ historic' = ladders
          /\ rates' = [name \in SeqRange(names) |->
                          [label \in Labels |->
                              RateOf(hist[name],
                                     timestamp - INTERVALS[label])]]
          /\ rank_changes' = [name \in EntryNames(entries) |->
                                 [label \in Labels |->
                                     RankDelta(
                                         HistoricRank(ladders[label], name),
                                         CurrentRank(entries, name))]]
    /\ pc' = "ladder"
    /\ UNCHANGED <<store, ladder_file, meta_file, now, cycles, entries,
                   timestamp, idx, updated_count, ret, written>>

(* build_current_ladder and the dump of current_ladder.json *)
SaveLadder ==
    /\ pc = "ladder"
    /\ ladder_file' = Some(build_current_ladder(entries, rates, rank_changes))
    /\ written' = Append(written, LadderPath)
    /\ pc' = "meta"
    /\ UNCHANGED <<store, meta_file, now, cycles, entries, timestamp, idx,
                   updated_count, ret, histories, xp_then, historic, rates,
                   rank_changes>>

(* save_metadata, after which the run ends *)
SaveMetadata ==
    /\ pc = "meta"
    /\ meta_file' = Some(Metadata(timestamp, Len(entries), updated_count))
    /\ written' = Append(written, MetadataPath)
    /\ pc' = "done"
    /\ NoRun
    /\ UNCHANGED <<store, ladder_file, now, cycles>>

(* the run stops between two steps: an uncaught exception or a kill *)
Crash ==
    /\ Running
    /\ pc' = "crashed"
    /\ NoRun
    /\ UNCHANGED <<store, ladder_file, meta_file, now, cycles, written>>

Next ==
    \/ FetchFails
    \/ FetchEmpty
    \/ FetchEntries
    \/ UpdateHistory
    \/ CalculateMetrics
    \/ SaveLadder
    \/ SaveMetadata
    \/ Crash

Spec == Init /\ [][Next]_vars

----------------------------------------------------------------------------
(* calculate_metrics on its own: the players directory, the entries and    *)
(* the cycle time are drawn from bounded sets, the run is about to call    *)
(* calculate_metrics.                                                      *)

MetricTimes == {0, 1800, 3600}
MetricXPs == {100, 300}
MetricNows == {1800, 3600, 5400, 14400}
MetricOrders ==
    {<<NameA>>, <<NameB, NameA>>, <<NameA, NameB, NameC>>,
     <<NameC, NameB, NameA>>}

MetricSnapshots == [t : MetricTimes, x : MetricXPs]

(* histories of at most n snapshots, sorted by time *)
MetricHistories(n) ==
    {h \in UNION {[1..k -> MetricSnapshots] : k \in 0..n} :
        \A j \in 1..(Len(h) - 1) : h[j].t <= h[j + 1].t}

InitMetrics ==
    \E ha \in MetricHistories(MaxLen), hb \in MetricHistories(1),
       hc \in MetricHistories(1), order \in MetricOrders, ts \in MetricNows :
        LET H == (NameA :> ha) @@ (NameB :> hb) @@ (NameC :> hc)
        IN /\ store = [f \in {n \in DOMAIN H : H[n] # <<>>} |->
                          [name |-> f, history |-> H[f]]]
           /\ entries = [k \in 1..Len(order) |->
                            Entry(order[k], k,
                                  IF H[order[k]] = <<>> THEN 100
                                  ELSE Last(H[order[k]]).x,
                                  None, FALSE)]
           /\ timestamp = ts
           /\ now = ts + Tick
           /\ idx = Len(order) + 1
           /\ ladder_file = None
           /\ meta_file = None
           /\ cycles = 1
           /\ pc = "metrics"
           /\ updated_count = 0
           /\ ret = FALSE
           /\ histories = <<>>
           /\ xp_then = <<>>
           /\ historic = <<>>
           /\ rates = <<>>
           /\ rank_changes = <<>>
           /\ written = <<>>

NextMetrics == CalculateMetrics

SpecMetrics == InitMetrics /\ [][NextMetrics]_vars

----------------------------------------------------------------------------
(* The rate branch of calculate_metrics on its own: one character whose    *)
(* history, sorted by time, and the cycle time are drawn from bounded      *)
(* sets.  The cycle time may lie before the last snapshot (the clock was   *)
(* set back and the entry did not change).                                 *)

RateTimes == {0, 1800, 3600, 7200}
RateXPs == {100, 300, 500}
RateNows == {1800, 3600, 5400, 7200}

RateSnapshots == [t : RateTimes, x : RateXPs]

RateHistories(n) ==
    {h \in UNION {[1..k -> RateSnapshots] : k \in 0..n} :
        \A j \in 1..(Len(h) - 1) : h[j].t <= h[j + 1].t}

InitRate ==
    \E ha \in RateHistories(MaxLen + 1), ts \in RateNows :
        /\ store = IF ha = <<>> THEN <<>>
                   ELSE (NameA :> [name |-> NameA, history |-> ha])
        /\ entries = <<Entry(NameA, 1,
                             IF ha = <<>> THEN 100 ELSE Last(ha).x,
                             None, FALSE)>>
        /\ timestamp = ts
        /\ now = ts + Tick
        /\ idx = 2
        /\ ladder_file = None
        /\ meta_file = None
        /\ cycles = 1
        /\ pc = "metrics"
        /\ updated_count = 0
        /\ ret = FALSE
        /\ histories = <<>>
        /\ xp_then = <<>>
        /\ historic = <<>>
        /\ rates = <<>>
        /\ rank_changes = <<>>
        /\ written = <<>>

NextRate == CalculateMetrics

SpecRate == InitRate /\ [][NextRate]_vars

----------------------------------------------------------------------------
(* Properties *)

(* the experience, depth and dead flag a snapshot records *)
ValuesOf(snap) ==
    <<snap.x,
      IF "d" \in DOMAIN snap THEN Some(snap.d) ELSE None,
      "dead" \in DOMAIN snap>>

EntryValues(entry) == <<entry.experience, entry.depth, entry.dead>>

(* the history persisted for a character name, empty when there is none *)
Persisted(files, name) ==
    IF safe_filename(name) \in DOMAIN files
    THEN files[safe_filename(name)].history
    ELSE <<>>

IsPrefix(s, t) == Len(s) <= Len(t) /\ SubSeq(t, 1, Len(s)) = s

Sorted(history) ==
    \A j \in 1..(Len(history) - 1) : history[j].t <= history[j + 1].t

(* C1: idempotent ingestion.  Whenever update_player_history is called     *)
(* with an entry whose experience, depth and dead flag equal those of the  *)
(* last snapshot of the persisted non-empty history, it returns False and  *)
(* the players directory is left exactly as it was, whatever the           *)
(* timestamp.                                                              *)
C1_IdempotentIngestion ==
    [][(/\ pc = "update"
        /\ pc' # "crashed"
        /\ Persisted(store, entries[idx].name) # <<>>
        /\ ValuesOf(Last(Persisted(store, entries[idx].name)))
               = EntryValues(entries[idx]))
       => (ret' = FALSE /\ store' = store /\ updated_count' = updated_count)
      ]_vars

(* a later cycle re-ingested the values of the last snapshot: the call     *)
(* returned False and the history still ends with the older snapshot       *)
C1_Witness ==
    /\ pc \in {"update", "metrics"}
    /\ idx > 1
    /\ ret = FALSE
    /\ LET h == Persisted(store, entries[idx - 1].name)
       IN /\ h # <<>>
          /\ Last(h).t < timestamp
          /\ ValuesOf(Last(h)) = EntryValues(entries[idx - 1])

(* C2: append-only, time-ordered histories.  Every step leaves each        *)
(* persisted history as a prefix of the new one, appends at most one       *)
(* snapshot to it, and the new history has non-decreasing timestamps.      *)
C2_AppendOnlySorted ==
    [][\A f \in DOMAIN store :
          /\ f \in DOMAIN store'
          /\ IsPrefix(store[f].history, store'[f].history)
          /\ Len(store'[f].history) <= Len(store[f].history) + 1
          /\ Sorted(store'[f].history)
      ]_vars

(* a history that grew to three snapshots over three cycles *)
C2_Witness ==
    \E f \in DOMAIN store :
        /\ Len(store[f].history) = 3
        /\ store[f].history[1].t < store[f].history[3].t

(* The end-to-end scenario of C3 with the final rate r: from the history   *)
(* [(0,1000)], ingesting (3600,1000) reports unchanged, ingesting          *)
(* (7200,1500) reports changed, and after the cycle at 3600 completed with *)
(* no update the 1h rate computed at 7200 is r.                            *)
C3_Scenario(r) ==
    LET first == [t |-> 0, x |-> 1000]
        second == [t |-> 7200, x |-> 1500]
    IN /\ (/\ pc = "update" /\ pc' # "crashed"
           /\ timestamp = 3600
           /\ entries[idx] = Entry(NameA, 1, 1000, None, FALSE)
           /\ Persisted(store, NameA) = <<first>>)
          => (ret' = FALSE /\ store' = store)
       /\ (/\ pc = "update" /\ pc' # "crashed"
           /\ timestamp = 7200
           /\ entries[idx] = Entry(NameA, 1, 1500, None, FALSE)
           /\ Persisted(store, NameA) = <<first>>)
          => (ret' = TRUE /\ Persisted(store', NameA) = <<first, second>>)
       /\ (/\ pc = "metrics" /\ pc' = "ladder"
           /\ timestamp = 7200
           /\ meta_file = Some(Metadata(3600, 1, 0))
           /\ Persisted(store, NameA) = <<first, second>>)
          => rates'[NameA].h1 = r

(* C3 as stated: the end-to-end example ends with the rate 500 *)
C3_EndToEndRate500 == [][C3_Scenario(500)]_vars

(* C3 amended: the end-to-end example ends with the rate 250, because the  *)
(* elapsed time is taken between the two snapshots used (0 and 7200), not  *)
(* from the nominal window of 3600 seconds.                                *)
C3_EndToEndRate250 == [][C3_Scenario(250)]_vars

(* the third cycle of the example after calculate_metrics: the cycle at    *)
(* 3600 completed without an update, the cycle at 7200 appended a snapshot *)
C3_Witness ==
    /\ pc = "ladder"
    /\ timestamp = 7200
    /\ entries = <<Entry(NameA, 1, 1500, None, FALSE)>>
    /\ meta_file = Some(Metadata(3600, 1, 0))
    /\ histories[NameA] = <<[t |-> 0, x |-> 1000], [t |-> 7200, x |-> 1500]>>
    /\ rates[NameA].h1 = 250

(* the snapshots of a history taken at or before target_time *)
AtOrBefore(history, target_time) ==
    {k \in 1..Len(history) : history[k].t <= target_time}

MaxOf(S) == CHOOSE k \in S : \A j \in S : j <= k

(* C4: the Time Resolver is a right-continuous step function.  For every   *)
(* loaded history (sorted by time) and every target time of the cycle, the *)
(* resolved value is None when the history is empty or the target is       *)
(* before the first snapshot, and otherwise the x of the latest snapshot   *)
(* taken at or before the target, which is the last snapshot when the      *)
(* target is at or after its time.                                         *)
C4_StepFunction ==
    pc = "ladder" =>
        \A label \in Labels : \A name \in DOMAIN histories :
            LET h == histories[name]
                target_time == timestamp - INTERVALS[label]
                got == xp_then[label][name]
            IN /\ (h = <<>> \/ target_time < h[1].t) => got = None
               /\ (h # <<>> /\ target_time >= h[1].t) =>
                      got = Some(h[MaxOf(AtOrBefore(h, target_time))].x)
               /\ (h # <<>> /\ target_time >= Last(h).t) =>
                      got = Some(Last(h).x)

(* one cycle resolved a target strictly between two snapshots of different *)
(* value to the earlier one, and another target to None                    *)
C4_Witness ==
    /\ pc = "ladder"
    /\ \E name \in DOMAIN histories :
          LET h == histories[name]
              target_time == timestamp - INTERVALS.h1
          IN /\ Len(h) >= 2
             /\ h[1].t <= target_time
             /\ target_time < h[2].t
             /\ h[1].x # h[2].x
             /\ xp_then.h1[name] = Some(h[1].x)
             /\ xp_then.h4[name] = None

(* the names ranked in a historic ladder *)
RankedNames(ladder) == {ladder[k].name : k \in 1..Len(ladder)}

(* C5 as stated: every persisted history belongs to one entity and no      *)
(* history holds two snapshots with the same timestamp (the cycles of this *)
(* specification have strictly increasing timestamps).                     *)
C5_NoDuplicateTimestamps ==
    \A f \in DOMAIN store :
        \A j, k \in 1..Len(store[f].history) :
            j # k => store[f].history[j].t # store[f].history[k].t

(* the run stopped with every output of its cycle on disk *)
BundleComplete ==
    /\ LadderPath \in SeqRange(written)
    /\ MetadataPath \in SeqRange(written)

(* C6 as stated: whenever the run has stopped, either no output of the     *)
(* cycle has been written or the complete bundle has been written.         *)
C6_AllOrNothing ==
    Stopped => (written = <<>> \/ BundleComplete)

(* C6 amended: a run that exits in the fetch writes nothing; otherwise the *)
(* outputs are written in the order history files, current_ladder.json,    *)
(* metadata.json, so what is on disk when the run stops is a prefix of     *)
(* that order: the ladder is written only after every entry was ingested,  *)
(* the metadata only after the ladder and as the last write, and a run     *)
(* that finished has written the ladder and the metadata of one cycle.     *)
C6_WriteOrder ==
    /\ pc \in {"exit0", "exit1"} => written = <<>>
    /\ \A k \in 1..Len(written) :
          /\ written[k] = LadderPath =>
                /\ \A j \in 1..(k - 1) : written[j][1] = "players"
                /\ Running => idx = Len(entries) + 1
                /\ ladder_file # None
          /\ written[k] = MetadataPath =>
                /\ k = Len(written)
                /\ k >= 2
                /\ written[k - 1] = LadderPath
                /\ pc = "done"
    /\ pc = "done" =>
          /\ BundleComplete
          /\ meta_file[1].total_players = Len(ladder_file[1])
          /\ meta_file[1].players_updated = Len(written) - 2
          /\ \A k \in 1..Len(ladder_file[1]) :
                Persisted(store, ladder_file[1][k].name) # <<>>

(* a run crashed after it wrote a history and current_ladder.json and      *)
(* before it wrote metadata.json                                           *)
C6_Witness ==
    /\ pc = "crashed"
    /\ Len(written) >= 2
    /\ Last(written) = LadderPath

(* C7 as stated: every tracked entity (every persisted history) with a     *)
(* snapshot at or before the target time is in the historic ranking.       *)
C7_AllTrackedRanked ==
    pc = "ladder" =>
        \A label \in Labels : \A f \in DOMAIN store :
            AtOrBefore(store[f].history, timestamp - INTERVALS[label]) # {}
                => store[f].name \in RankedNames(historic[label])

(* C7 amended: the historic ranking at a target time consists of exactly   *)
(* the characters of the current entries whose persisted history has a     *)
(* snapshot at or before the target time, each with the value resolved     *)
(* there; current characters that resolve to unknown are excluded, and so  *)
(* are tracked characters that are not in the current entries.             *)
C7_CurrentResolvableRanked ==
    pc = "ladder" =>
        \A label \in Labels :
            LET target_time == timestamp - INTERVALS[label]
                ladder == historic[label]
            IN /\ RankedNames(ladder) =
                     {n \in EntryNames(entries) :
                         AtOrBefore(Persisted(store, n), target_time) # {}}
               /\ \A k \in 1..Len(ladder) :
                     LET h == Persisted(store, ladder[k].name)
                     IN ladder[k].xp = h[MaxOf(AtOrBefore(h, target_time))].x

(* a tracked character with a snapshot at or before the 1h target is not   *)
(* in the current entries, while a current character is ranked             *)
C7_Witness ==
    /\ pc = "ladder"
    /\ historic.h1 # <<>>
    /\ \E f \in DOMAIN store :
          /\ store[f].name \notin EntryNames(entries)
          /\ AtOrBefore(store[f].history, timestamp - INTERVALS.h1) # {}

(* C10 as stated: after the update loop, the history calculate_metrics     *)
(* reads for each current entry ends with a snapshot whose experience,     *)
(* depth and dead flag equal that entry's.                                 *)
C10_MetricsSeeCurrentEntry ==
    pc = "ladder" =>
        \A k \in 1..Len(entries) :
            /\ entries[k].name \in DOMAIN histories
            /\ histories[entries[k].name] # <<>>
            /\ ValuesOf(Last(histories[entries[k].name]))
                   = EntryValues(entries[k])

(* the position of a name in a sequence of distinct names *)
PositionIn(names, name) == CHOOSE k \in 1..Len(names) : names[k] = name

(* C8: the historic ranking is dense and positional with a stable          *)
(* tie-break.  For every interval the K characters with a resolved value   *)
(* take the positions 1..K of the historic ladder, each character once,    *)
(* with its resolved value; values are in descending order and characters  *)
(* of equal value stand in their input order.                              *)
C8_DenseStableRanking ==
    pc = "ladder" =>
        \A label \in Labels :
            LET ladder == historic[label]
                order == HistoryNames(entries)
                resolved == {n \in DOMAIN histories :
                                xp_then[label][n] # None}
            IN /\ Len(ladder) = Cardinality(resolved)
               /\ RankedNames(ladder) = resolved
               /\ \A k \in 1..Len(ladder) :
                     Some(ladder[k].xp) = xp_then[label][ladder[k].name]
               /\ \A j, k \in 1..Len(ladder) :
                     j < k =>
                        \/ ladder[j].xp > ladder[k].xp
                        \/ /\ ladder[j].xp = ladder[k].xp
                           /\ PositionIn(order, ladder[j].name)
                                  < PositionIn(order, ladder[k].name)

(* the example of the claim: the input order a, b, c with the values 300,  *)
(* 300 and 100 is ranked a = 1, b = 2, c = 3; and for another interval of  *)
(* the same cycle the sort changed the input order                         *)
C8_Witness ==
    /\ pc = "ladder"
    /\ HistoryNames(entries) = <<NameA, NameB, NameC>>
    /\ historic.h1 = <<[name |-> NameA, xp |-> 300],
                       [name |-> NameB, xp |-> 300],
                       [name |-> NameC, xp |-> 100]>>
    /\ Len(historic.h4) = 2
    /\ historic.h4[1].name = NameB

(* C9: rank delta.  For every current entry and every interval the         *)
(* reported rank change is the historic position minus the current rank    *)
(* when the character is in the historic ladder of that interval, and None *)
(* when it is absent: an absent character is never reported as 0 and a     *)
(* delta of 0 is reported as 0, not as None.                               *)
C9_RankDelta ==
    pc = "ladder" =>
        \A k \in 1..Len(entries) : \A label \in Labels :
            LET name == entries[k].name
                ladder == historic[label]
                pos == {j \in 1..Len(ladder) : ladder[j].name = name}
                got == rank_changes[name][label]
            IN IF pos = {}
               THEN got = None /\ got # Some(0)
               ELSE /\ got = Some(MaxOf(pos) - entries[k].rank)
                    /\ got # None

(* one cycle reported an improvement, a drop and an unknown for one        *)
(* interval and a delta of 0 for another                                   *)
C9_Witness ==
    /\ pc = "ladder"
    /\ \E n1, n2, n3 \in EntryNames(entries) :
          /\ rank_changes[n1].h4 = Some(1)
          /\ rank_changes[n2].h4 = Some(0 - 1)
          /\ rank_changes[n3].h4 = None
          /\ rank_changes[n1].h1 = Some(0)

(* the value of the step function of a history at a time: the x of the     *)
(* latest snapshot taken at or before it, None when there is none          *)
ValueAt(history, time) ==
    IF AtOrBefore(history, time) = {} THEN None
    ELSE Some(history[MaxOf(AtOrBefore(history, time))].x)

====
